---- MODULE Spec2Model ----
(***************************************************************************)
(* The /extract request handler of app/main.py together with the services  *)
(* it drives: BrowserService (browser_service.py), PopupDetector            *)
(* (popup_detector.py) and LocalContentExtractor                           *)
(* (local_content_extractor.py).                                           *)
(*                                                                         *)
(* One request is a sequential program; pc is its position.  The driver    *)
(* (Playwright), the oracle (OpenAI) and the page are the environment:     *)
(* every driver primitive may succeed or raise, the oracle may raise,      *)
(* answer with text that is not JSON, or answer with any JSON value.       *)
(***************************************************************************)
EXTENDS Integers, Sequences, FiniteSets, TLC

(***************************************************************************)
(* Bounds of the model.                                                    *)
(***************************************************************************)
MaxRetries == 2      \* max_popup_retries ranges over 0..MaxRetries
MaxElems == 2        \* longest "elements" list of an oracle reply
MaxFrames == 2       \* most frames page.frames enumerates
MaxNodes == 2        \* most nodes directly under the body of a generated document
MaxImages == 12      \* longest row of images in a generated document
MaxText == 5         \* longest text the whitespace clean-up is run on

(***************************************************************************)
(* Program constants.  Confidence is kept in hundredths: 0.3 is 30.        *)
(***************************************************************************)
ConfidenceThreshold == 30
PopupSettle == 5
FinalSettle == 3
LoadWait == 3
ClickPause == 1

(***************************************************************************)
(* JSON values as json.loads returns them, tagged with their type.  A      *)
(* dict is a function whose DOMAIN is the set of keys present.             *)
(***************************************************************************)
Null == [type |-> "null"]
Bool(b) == [type |-> "bool", bool |-> b]
Num(n) == [type |-> "number", num |-> n]
Str(s) == [type |-> "string", str |-> s]
Arr(items) == [type |-> "array", items |-> items]
Obj(fields) == [type |-> "object", fields |-> fields]

\* isinstance(v, dict): only a dict has .get
IsDict(v) == v.type = "object"

\* d.get(key, default) of a dict
Get(d, key, default) == IF key \in DOMAIN d.fields THEN d.fields[key] ELSE default

\* Python truth value of a JSON value (bool(v))
Truthy(v) ==
  CASE v.type = "null" -> FALSE
    [] v.type = "bool" -> v.bool
    [] v.type = "number" -> v.num # 0
    [] v.type = "string" -> v.str # ""
    [] v.type = "array" -> Len(v.items) > 0
    [] v.type = "object" -> DOMAIN v.fields # {}

\* v > 0.3 is defined for numbers (and bools, which are ints); for anything
\* else Python 3 raises TypeError
Comparable(v) == v.type \in {"number", "bool"}

AtOrAboveThreshold(v) ==
  IF v.type = "bool" THEN v.bool ELSE v.num >= ConfidenceThreshold

\* confidence > 0.3, for a comparable value
AboveThreshold(v) ==
  IF v.type = "bool" THEN v.bool ELSE v.num > ConfidenceThreshold

(***************************************************************************)
(* What the oracle may send back.                                          *)
(***************************************************************************)
Candidates ==
  { Str("Accept"),                                        \* not an object
    Obj([selector |-> Str("#accept"), confidence |-> Num(90),
         button_text |-> Str("Accept")]),
    Obj([selector |-> Str("#accept"), confidence |-> Num(31)]),
    Obj([selector |-> Str("#accept"), confidence |-> Num(30)]),
    Obj([selector |-> Str("#accept")]),                   \* no confidence
    Obj([selector |-> Str(""), confidence |-> Num(90)]),
    Obj([confidence |-> Num(90)]),                        \* no selector
    Obj([selector |-> Str("#accept"), confidence |-> Str("high")]) }

ElementLists == UNION { [1..n -> Candidates] : n \in 0..MaxElems }

Replies ==
  { Arr(<<>>) }                                           \* top level not an object
  \cup { Obj([popups_found |-> Bool(f)]) : f \in BOOLEAN }
  \cup { Obj([popups_found |-> Bool(f), elements |-> Null]) : f \in BOOLEAN }
  \cup { Obj([elements |-> Arr(l)]) : l \in ElementLists }
  \cup { Obj([popups_found |-> Bool(f), elements |-> Arr(l)]) :
           f \in BOOLEAN, l \in ElementLists }

OracleOutcomes ==
  { [kind |-> "raise"], [kind |-> "invalid_json"] }
  \cup { [kind |-> "json", value |-> v] : v \in Replies }

\* the dict detect_popups returns from its except clause
DefaultResult == Obj([popups_found |-> Bool(FALSE), elements |-> Arr(<<>>)])

detect_popups_uncaught(o) ==
  IF o.kind = "json"
    THEN [raised |-> FALSE, value |-> o.value]
    ELSE [raised |-> TRUE, value |-> Null]

\* detect_popups: the reply parsed by json.loads, or the default when the
\* call or the parse raised; it never raises itself
detect_popups(o) ==
  IF o.kind = "json"
    THEN [raised |-> FALSE, value |-> o.value]
    ELSE [raised |-> FALSE, value |-> DefaultResult]

(***************************************************************************)
(* Text.  A Python str is the sequence of its characters.                  *)
(***************************************************************************)
\* the characters str.strip() removes, as far as documents here use them
Whitespace == {" ", "\n", "\t"}

\* str.strip(): what lies between the first and the last character that is
\* not whitespace
strip(s) ==
  LET inked == { i \in 1..Len(s) : s[i] \notin Whitespace } IN
    IF inked = {} THEN << >>
    ELSE SubSeq(s, CHOOSE i \in inked : \A j \in inked : i <= j,
                   CHOOSE i \in inked : \A j \in inked : i >= j)

\* str.startswith(prefix)
startswith(s, prefix) ==
  Len(s) >= Len(prefix) /\ SubSeq(s, 1, Len(prefix)) = prefix

\* sep.join(parts)
RECURSIVE join(_, _)
join(sep, parts) ==
  IF Len(parts) = 0 THEN <<>>
  ELSE IF Len(parts) = 1 THEN parts[1]
  ELSE parts[1] \o sep \o join(sep, Tail(parts))

\* re.sub of the pattern c{atleast,} by `keep` copies of c: leftmost, greedy,
\* non-overlapping matches; the text is walked run by run
RECURSIVE sub_runs(_, _, _, _)
sub_runs(s, c, atleast, keep) ==
  IF Len(s) = 0 THEN <<>>
  ELSE LET \* the length of the longest prefix of s made of characters in `chars`
           PrefixLength(chars) ==
             LET others == { i \in 1..Len(s) : s[i] \notin chars } IN
               IF others = {} THEN Len(s)
               ELSE (CHOOSE i \in others : \A j \in others : i <= j) - 1
           r == PrefixLength({c})
           o == PrefixLength({ s[i] : i \in 1..Len(s) } \ {c}) IN
    IF r = 0
      THEN SubSeq(s, 1, o) \o sub_runs(SubSeq(s, o + 1, Len(s)), c, atleast, keep)
      ELSE (IF r >= atleast THEN [i \in 1..keep |-> c] ELSE SubSeq(s, 1, r))
           \o sub_runs(SubSeq(s, r + 1, Len(s)), c, atleast, keep)

sub_spaces_skipped(s) == s

\* re.sub(r' {2,}', ' ', body)
sub_spaces(s) == sub_runs(s, " ", 2, 1)

\* _extract_body, "Clean up excessive whitespace" and the final strip():
\* re.sub(r'\n{3,}', '\n\n', body), then the rule for spaces, then strip()
clean_up(s) == strip(sub_spaces(sub_runs(s, "\n", 3, 2)))

DigitValue ==
  "0" :> 0 @@ "1" :> 1 @@ "2" :> 2 @@ "3" :> 3 @@ "4" :> 4 @@
  "5" :> 5 @@ "6" :> 6 @@ "7" :> 7 @@ "8" :> 8 @@ "9" :> 9

\* the digits of a literal that int() accepts: surrounding whitespace and
\* one sign are allowed
Unsigned(s) ==
  LET t == strip(s) IN
    IF Len(t) > 0 /\ Head(t) \in {"+", "-"} THEN Tail(t) ELSE t

\* int(s) returns (it raises ValueError otherwise)
IsInt(s) ==
  /\ Len(Unsigned(s)) > 0
  /\ \A i \in 1..Len(Unsigned(s)) : Unsigned(s)[i] \in DOMAIN DigitValue

RECURSIVE Decimal(_)
Decimal(u) ==
  IF Len(u) = 0 THEN 0
  ELSE 10 * Decimal(SubSeq(u, 1, Len(u) - 1)) + DigitValue[u[Len(u)]]

\* int(s), for a literal it accepts
int(s) ==
  IF Head(strip(s)) = "-" THEN 0 - Decimal(Unsigned(s)) ELSE Decimal(Unsigned(s))

(***************************************************************************)
(* Documents, as BeautifulSoup(html, 'html.parser') holds them: a tree of   *)
(* tags and strings.  A tag has a name, attributes and children; a string  *)
(* is a node named "#text".  An attribute the model compares only for      *)
(* equality (id, class, role, property, name) is kept as an atom; one the   *)
(* code reads as text (content, src, data_src, width, height) is a str.    *)
(***************************************************************************)
NoAttrs == << >>
Text(s) == [name |-> "#text", attrs |-> NoAttrs, children |-> << >>, text |-> s]
Tag(name, attrs, children) ==
  [name |-> name, attrs |-> attrs, children |-> children, text |-> << >>]

\* find() found nothing
None == [name |-> "#none", attrs |-> NoAttrs, children |-> << >>, text |-> << >>]
Found(node) == node.name # "#none"

has_attr(tag, a) == a \in DOMAIN tag.attrs

\* tag.get(a) of a text attribute; None and '' are both false and are not
\* told apart
get(tag, a) == IF has_attr(tag, a) THEN tag.attrs[a] ELSE << >>

\* the tags below `nodes`, in document order
RECURSIVE Preorder(_)
Preorder(nodes) ==
  IF Len(nodes) = 0 THEN << >>
  ELSE LET n == Head(nodes) IN
    (IF n.name = "#text" THEN << >> ELSE << n >> \o Preorder(n.children))
    \o Preorder(Tail(nodes))

\* the strings below `nodes`, in document order
RECURSIVE Strings(_)
Strings(nodes) ==
  IF Len(nodes) = 0 THEN << >>
  ELSE LET n == Head(nodes) IN
    (IF n.name = "#text" THEN << n.text >> ELSE Strings(n.children))
    \o Strings(Tail(nodes))

RECURSIVE StrippedNonEmpty(_)
StrippedNonEmpty(strings) ==
  IF Len(strings) = 0 THEN << >>
  ELSE (IF Len(strip(Head(strings))) > 0 THEN << strip(Head(strings)) >> ELSE << >>)
       \o StrippedNonEmpty(Tail(strings))

\* tag.get_text(strip=True): every string below the tag stripped, the empty
\* ones dropped, the rest concatenated
get_text(tag) == join(<< >>, StrippedNonEmpty(Strings(tag.children)))

\* soup.find(...), given the tags that match in document order: the first
find(matching) == IF Len(matching) = 0 THEN None ELSE Head(matching)

(***************************************************************************)
(* LocalContentExtractor._extract_title                                    *)
(***************************************************************************)
NoTitle == << >>

\* `return "Untitled"`
Untitled == << "U", "n", "t", "i", "t", "l", "e", "d" >>

\* the four lambdas of `strategies`, by position; None, '' and a caught
\* exception all make the loop go on and are all << >> here
title_strategy(nodes, k) ==
  LET \* `soup.find(name).get_text(strip=True) if soup.find(name) else None`
      text_of_first(name) ==
        LET tag == find(SelectSeq(Preorder(nodes), LAMBDA t : t.name = name)) IN
          IF Found(tag) THEN get_text(tag) ELSE << >>
      \* `soup.find('meta', attrs={key: value})['content']`; a meta without
      \* the attribute raises KeyError, no meta raises TypeError, and the
      \* loop's bare except turns both into `continue`
      content_of(key, value) ==
        LET tag == find(SelectSeq(Preorder(nodes), LAMBDA t :
                     t.name = "meta" /\ has_attr(t, key) /\ t.attrs[key] = value)) IN
          IF Found(tag) /\ has_attr(tag, "content") THEN tag.attrs["content"] ELSE << >>
  IN CASE k = 1 -> text_of_first("h1")
       [] k = 2 -> text_of_first("title")
       [] k = 3 -> content_of("property", "og:title")
       [] k = 4 -> content_of("name", "title")

RECURSIVE first_title(_, _)
first_title(nodes, k) ==
  IF k > 4 THEN Untitled
  ELSE IF Len(title_strategy(nodes, k)) > 0 THEN title_strategy(nodes, k)
  ELSE first_title(nodes, k + 1)

_extract_title(nodes) == first_title(nodes, 1)

(***************************************************************************)
(* LocalContentExtractor._extract_body                                     *)
(***************************************************************************)
MinTextLength == 20

UnwantedButScript == {"style", "nav", "header", "footer", "aside", "iframe"}

\* soup(['script', 'style', 'nav', 'header', 'footer', 'aside', 'iframe'])
Unwanted == {"script", "style", "nav", "header", "footer", "aside", "iframe"}

\* `for element in soup([...]): element.decompose()`: every unwanted tag is
\* cut out of the tree with all that is below it
RECURSIVE decompose(_)
decompose(nodes) ==
  IF Len(nodes) = 0 THEN << >>
  ELSE LET n == Head(nodes) IN
    (IF n.name \in Unwanted
       THEN << >>
       ELSE << [n EXCEPT !.children = decompose(n.children)] >>)
    \o decompose(Tail(nodes))

\* soup.select_one(selector), for the CSS selectors _extract_body uses: a
\* tag name, [role="..."], #id and .class
select_one(nodes, sel) ==
  LET Selects(tag) ==
        CASE sel.by = "tag" -> tag.name = sel.value
          [] sel.by = "role" -> has_attr(tag, "role") /\ tag.attrs["role"] = sel.value
          [] sel.by = "id" -> has_attr(tag, "id") /\ tag.attrs["id"] = sel.value
          [] sel.by = "class" ->
               has_attr(tag, "class") /\ sel.value \in tag.attrs["class"]
  IN find(SelectSeq(Preorder(nodes), Selects))

\* `for selector in [...]: main_content = soup.select_one(selector); if
\* main_content: break`
RECURSIVE first_selected(_, _)
first_selected(nodes, selectors) ==
  IF Len(selectors) = 0 THEN None
  ELSE IF Found(select_one(nodes, Head(selectors)))
    THEN select_one(nodes, Head(selectors))
    ELSE first_selected(nodes, Tail(selectors))

\* the three strategies for main_content
main_content(nodes) ==
  LET \* "Strategy 1: Look for main/article tags"
      MainSelectors ==
        << [by |-> "tag", value |-> "main"], [by |-> "tag", value |-> "article"],
           [by |-> "role", value |-> "main"] >>
      \* "Strategy 2: Look for common content containers"
      ContainerSelectors ==
        << [by |-> "id", value |-> "content"], [by |-> "id", value |-> "main-content"],
           [by |-> "class", value |-> "content"],
           [by |-> "class", value |-> "main-content"],
           [by |-> "class", value |-> "article-body"] >>
  IN IF Found(first_selected(nodes, MainSelectors))
       THEN first_selected(nodes, MainSelectors)
     ELSE IF Found(first_selected(nodes, ContainerSelectors))
       THEN first_selected(nodes, ContainerSelectors)
     ELSE find(SelectSeq(Preorder(nodes), LAMBDA t : t.name = "body"))

\* the loop over main_content.find_all([...]) that fills text_parts
RECURSIVE text_parts(_)
text_parts(tags) ==
  IF Len(tags) = 0 THEN << >>
  ELSE LET tag == Head(tags)
           text == get_text(tag)
           \* the markdown formatting of one collected text
           formatted ==
             IF tag.name \in {"h1", "h2", "h3"}
               THEN << "\n", "\n", "*", "*" >> \o text \o << "*", "*", "\n" >>
             ELSE IF tag.name = "li" THEN << "-", " " >> \o text
             ELSE text IN
    (IF Len(text) > MinTextLength THEN << formatted >> ELSE << >>)
    \o text_parts(Tail(tags))

\* _extract_body, after the unwanted tags were removed from `nodes`
_extract_body(nodes) ==
  LET TextTags == {"p", "h1", "h2", "h3", "h4", "h5", "h6", "li", "td", "th", "div"} IN
    IF ~Found(main_content(nodes)) THEN << >>
    ELSE clean_up(join(<< "\n", "\n" >>,
           text_parts(SelectSeq(Preorder(main_content(nodes).children),
                                LAMBDA t : t.name \in TextTags))))

(***************************************************************************)
(* LocalContentExtractor._extract_images                                   *)
(***************************************************************************)
MinDimension == 100
ImageCap == 10

\* urlparse(base_url), its scheme and netloc
Url(scheme, netloc) == [scheme |-> scheme, netloc |-> netloc]
NoUrl == Url(<< >>, << >>)

\* `src = img.get('src') or img.get('data-src')`
src_of(img) == IF Len(get(img, "src")) > 0 THEN get(img, "src") ELSE get(img, "data_src")

\* "Make absolute URL": the source as it is appended, << >> when the image
\* is dropped by `elif not src.startswith('http'): continue`
absolute(src, base) ==
  IF startswith(src, << "/", "/" >>)
    THEN << "h", "t", "t", "p", "s", ":" >> \o src
  ELSE IF startswith(src, << "/" >>)
    THEN base.scheme \o << ":", "/", "/" >> \o base.netloc \o src
  ELSE IF ~startswith(src, << "h", "t", "t", "p" >>)
    THEN << >>
  ELSE src

\* one img of the loop is appended to `images`
appended(img, base) ==
  LET width == get(img, "width")
      height == get(img, "height")
      \* the try block "Skip small images": `if width and height: if
      \* int(width) < 100 or int(height) < 100: continue`, with `except:
      \* pass`.  int(width) is evaluated first, and `or` evaluates
      \* int(height) only when the width is not below 100.
      too_small ==
        /\ Len(width) > 0
        /\ Len(height) > 0
        /\ IsInt(width)
        /\ \/ int(width) < MinDimension
           \/ IsInt(height) /\ int(height) < MinDimension
  IN /\ Len(src_of(img)) > 0
     /\ ~too_small
     /\ Len(absolute(src_of(img), base)) > 0

\* the loop over soup.find_all('img')
RECURSIVE collected(_, _)
collected(imgs, base) ==
  IF Len(imgs) = 0 THEN << >>
  ELSE (IF appended(Head(imgs), base)
          THEN << absolute(src_of(Head(imgs)), base) >>
          ELSE << >>)
       \o collected(Tail(imgs), base)

uncapped(list) == list

\* images[:10]
capped(list) == SubSeq(list, 1, IF Len(list) < ImageCap THEN Len(list) ELSE ImageCap)

_extract_images(nodes, base) ==
  capped(collected(SelectSeq(Preorder(nodes), LAMBDA t : t.name = "img"), base))

(***************************************************************************)
(* LocalContentExtractor.extract_content                                   *)
(***************************************************************************)
\* A document together with the stage of extract_content that raises on it
\* ("none": no stage does).  html.parser builds and walks the tree
\* recursively: on markup nested deeper than the interpreter's recursion
\* limit, parsing, get_text or decompose raise RecursionError.
Document(nodes, fails) == [nodes |-> nodes, fails |-> fails]

\* the dict of the except clause
NoContent == [title |-> << >>, body |-> << >>, images |-> << >>]

\* extract_content(html, url) as a function of the document
extract_content(doc, base) ==
  IF doc.fails # "none" THEN NoContent
  ELSE [title |-> _extract_title(doc.nodes),
        body |-> _extract_body(decompose(doc.nodes)),
        images |-> _extract_images(decompose(doc.nodes), base)]

(***************************************************************************)
(* Documents and page URLs the extractor is run on.                        *)
(***************************************************************************)
News == << "N", "e", "w", "s" >>
Site == << "S", "i", "t", "e" >>
Blank == << " ", " " >>
Padded(word) == << " " >> \o word \o << "\n" >>

\* a text just long enough to be collected, made of one character
Long(c) == [i \in 1..(MinTextLength + 1) |-> c]

\* the character of every script and style payload, and the character of
\* every text inside nav, header, footer, aside and iframe
Payload == "$"
Chrome == "%"

Page(head, body_nodes) ==
  << Tag("head", NoAttrs, head), Tag("body", NoAttrs, body_nodes) >>

TitleDocs ==
  LET OgNews == << "O", "G" >>
      MetaNews == << "M", "e", "t", "a" >>
      H1Nodes ==
        { << >>,
          << Tag("h1", NoAttrs, << >>) >>,
          << Tag("h1", NoAttrs, << Text(Blank) >>) >>,
          << Tag("h1", NoAttrs, << Text(Padded(News)) >>) >> }
      TitleNodes ==
        { << >>,
          << Tag("title", NoAttrs, << Text(Blank) >>) >>,
          << Tag("title", NoAttrs, << Text(Padded(Site)) >>) >> }
      OgNodes ==
        { << >>,
          << Tag("meta", [property |-> "og:title"], << >>) >>,
          << Tag("meta", [property |-> "og:title", content |-> << >>], << >>) >>,
          << Tag("meta", [property |-> "og:title", content |-> Blank], << >>) >>,
          << Tag("meta", [property |-> "og:title", content |-> OgNews], << >>) >> }
      MetaNodes ==
        { << >>,
          << Tag("meta", [name |-> "title"], << >>) >>,
          << Tag("meta", [name |-> "title", content |-> MetaNews], << >>) >> }
  IN { Document(Page(t \o o \o m, h), "none") :
           t \in TitleNodes, o \in OgNodes, m \in MetaNodes, h \in H1Nodes }

Para(c) == Tag("p", NoAttrs, << Text(Long(c)) >>)

BodyDocs ==
  LET Script == Tag("script", NoAttrs, << Text(Long(Payload)) >>)
      Style == Tag("style", NoAttrs, << Text(Long(Payload)) >>)
      BodyNodes ==
        { Para("a"),
          Script,
          Tag("p", NoAttrs, << Text(Long("a")), Script >>),
          Tag("div", NoAttrs, << Tag("li", NoAttrs, << Text(Long("b")), Style >>) >>),
          Tag("nav", NoAttrs, << Para(Chrome), Script >>),
          Tag("header", NoAttrs, << Tag("h1", NoAttrs, << Text(Long(Chrome)) >>) >>),
          Tag("article", NoAttrs,
              << Tag("h2", NoAttrs, << Text(Long("a")) >>),
                 Tag("aside", NoAttrs, << Para(Chrome) >>),
                 Tag("p", NoAttrs, << Text(<< "a", " ", " ", "a", "\n", "\n", "\n" >>),
                                      Text(Long("a")) >>) >>),
          Tag("div", [id |-> "content"],
              << Tag("td", NoAttrs, << Text(Long("a")) >>),
                 Tag("footer", NoAttrs, << Tag("div", NoAttrs, << Text(Long(Chrome)) >>) >>),
                 Tag("iframe", NoAttrs, << Text(Long(Chrome)) >>) >>),
          Tag("div", [class |-> {"main-content"}], << Para("b"), Tag("p", NoAttrs, << Text(News) >>) >>) }
  IN { Document(Page(<< >>, nodes), "none") :
           nodes \in UNION { [1..n -> BodyNodes] : n \in 0..MaxNodes } }

Http == << "h", "t", "t", "p" >>
Https == << "h", "t", "t", "p", "s" >>

\* http://h/<c>
HttpImage(c) == Http \o << ":", "/", "/", "h", "/", c >>

Img(attrs) == Tag("img", attrs, << >>)

ImageRowDocs ==
  LET Letters == << "a", "b", "c", "d", "e", "f", "g", "h", "i", "j", "k", "l",
                    "m", "n", "o", "p", "q", "r", "s", "t", "u", "v", "w", "x" >>
      \* the i-th image of a row: all sources distinct, or the same three sources
      \* over and over, or every third image an icon of 50x50 among 200x150 ones
      RowImage(i, pattern) ==
        CASE pattern = "distinct" -> Img([src |-> HttpImage(Letters[i])])
          [] pattern = "repeating" -> Img([src |-> HttpImage(Letters[((i - 1) % 3) + 1])])
          [] pattern = "icons" ->
               Img([src |-> HttpImage(Letters[i]),
                    width |-> IF i % 3 = 0 THEN << "5", "0" >> ELSE << "2", "0", "0" >>,
                    height |-> IF i % 3 = 0 THEN << "5", "0" >> ELSE << "1", "5", "0" >>])
  IN { Document(Page(<< >>, [i \in 1..n |-> RowImage(i, pattern)]), "none") :
           n \in 0..MaxImages, pattern \in {"distinct", "repeating", "icons"} }

\* an attribute that may be missing
Optional(name, values) == { NoAttrs } \cup { name :> v : v \in values }

DimensionDocs ==
  LET Dimensions ==
        { << >>, << "5", "0" >>, << "9", "9" >>, << "1", "0", "0" >>,
          << "1", "5", "0" >>, << "2", "0", "0" >>, << "a", "b", "c" >>,
          << " ", "5", "0" >>, << "5", "0", "p", "x" >> }
  IN { Document(Page(<< >>, << Img([src |-> HttpImage("a")] @@ w @@ h) >>), "none") :
           w \in Optional("width", Dimensions), h \in Optional("height", Dimensions) }

SourceDocs ==
  LET Sources ==
        { << >>,
          HttpImage("a"),
          Https \o << ":", "/", "/", "h", "/", "a" >>,
          << "/", "/", "h", "/", "a" >>,
          << "/", "a" >>,
          << "a", "/", "b" >>,
          << "d", "a", "t", "a", ":", "x" >>,
          << "f", "t", "p", ":", "/", "/", "h", "/", "a" >>,
          Http \o << "d", "o", "c", "s", "/", "a" >> }
  IN { Document(Page(<< >>, << Img(s @@ d) >>), "none") :
           s \in Optional("src", Sources),
           d \in Optional("data_src", { HttpImage("b"), << "b" >> }) }

\* the article of the end-to-end scenario: a title element, an article with
\* one long paragraph and one 200x200 image, and an image in the header
Article ==
  << Tag("head", NoAttrs, << Tag("title", NoAttrs, << Text(Site) >>) >>),
     Tag("body", NoAttrs,
         << Tag("header", NoAttrs, << Img([src |-> HttpImage("l")]) >>),
            Tag("article", NoAttrs,
                << Para("a"),
                   Img([src |-> << "/", "i" >>, width |-> << "2", "0", "0" >>,
                        height |-> << "2", "0", "0" >>]) >>) >>) >>

ExtractorDocs ==
  LET FailingDocs ==
        { Document(Article, stage) : stage \in {"parse", "title", "body", "images"} }
  IN TitleDocs \cup BodyDocs \cup ImageRowDocs \cup DimensionDocs \cup SourceDocs
       \cup FailingDocs \cup { Document(Article, "none") }

\* the pages a request may find at its URL
Docs ==
  { Document(Article, "parse"),
    Document(Article, "none"),
    Document(Page(<< >>, << >>), "none"),
    Document(Page(<< Tag("title", NoAttrs, << Text(Site) >>) >>, << >>), "none") }

VARIABLES
  pc,                 \* position of the request in extract_content / click_element
  max_popup_retries,  \* settings.max_popup_retries
  browser,            \* main.py local: TRUE once BrowserService() is bound
  self_playwright,    \* BrowserService.playwright is not None
  self_browser,       \* BrowserService.browser is not None
  self_page,          \* BrowserService.page is not None
  open,               \* driver resources acquired and not yet released
  now,                \* time the request has slept so far (its clock)
  html,               \* main.py local: the snapshot given to the oracle
  final_html,         \* main.py local: the snapshot given to the extractor
  clicked_at,         \* clock at the last click_element call that returned true
  last_read,          \* the snapshot last handed to the oracle or the extractor
  attempt,            \* iterations of the popup loop started
  oracle_outcome,     \* what the oracle did at the last query
  popup_result,       \* main.py local
  idx,                \* position of the for-loop in elements (1-based)
  clicked_any,        \* main.py local
  selector,           \* argument of click_element
  button_text,        \* argument of click_element
  tried,              \* indexes of elements passed to click_element this attempt
  loop_end,           \* how the popup loop ended: "clean", "stalled", "exhausted", "raised"
  frames,             \* len(page.frames) in strategy 5
  fi,                 \* frame the strategy 5 loop is at
  effects,            \* click actions that took effect during this click_element call
  click_result,       \* what click_element returned: "true", "false" ("raised" if it raised)
  content,            \* main.py local: the extractor's result
  outcome,            \* response of the request: "200", "404", "500", or
                      \* "unhandled" when close() raised out of the handler
  exc,                \* the exception that ended the try block, "none" if none
  oracleCalls,        \* detect_popups calls of the request
  clickCalls,         \* click_element calls of the request
  extractCalls,       \* extract_content calls of the request
  refreshCalls,       \* get_html calls inside the popup loop that returned
  clickedAttempts,    \* attempts in which a click_element call returned true
  attempted,          \* strategies this click_element call has tried, with their results
  html_arg,           \* LocalContentExtractor: the document extract_content is given
  soup,               \* LocalContentExtractor: the parsed document
  base_url,           \* LocalContentExtractor: the url argument, as urlparse splits it
  title,              \* LocalContentExtractor.extract_content local
  body,               \* LocalContentExtractor.extract_content local
  images,             \* LocalContentExtractor.extract_content local
  requests,           \* the requests the service is handling, each with its position
                      \* and the locals of its extract_content call
  services,           \* the BrowserService objects constructed in the process
  thread              \* the request running on the event loop's thread ("idle": none)

vars == << pc, max_popup_retries, browser, self_playwright, self_browser,
           self_page, open, now, html, final_html, clicked_at, last_read, attempt,
           oracle_outcome, popup_result, idx, clicked_any, selector,
           button_text, tried, loop_end, frames, fi, effects, click_result, content,
           outcome, exc, oracleCalls, clickCalls, extractCalls, refreshCalls,
           clickedAttempts, attempted,
           html_arg, soup, base_url, title, body, images, requests, services,
           thread >>

driverVars == << self_playwright, self_browser, self_page, open >>
loopVars == << attempt, oracle_outcome, popup_result, idx, clicked_any, tried,
              loop_end >>
clickVars == << selector, button_text, frames, fi, effects, click_result,
               attempted >>
extractorVars == << html_arg, soup, base_url, title, body, images >>
serverVars == << requests, services, thread >>
countVars == << oracleCalls, clickCalls, extractCalls, refreshCalls,
               clickedAttempts >>
snapVars == << now, html, final_html, clicked_at, last_read >>
endVars == << content, outcome, exc >>

\* A snapshot is the page's HTML at one moment: `at` is the clock when it was
\* read, `stale` tells that a click changed the live page after that.
NoSnapshot == [read |-> FALSE, at |-> 0, stale |-> FALSE]

\* page.content(): the HTML of the live page, now
Snapshot(t) == [read |-> TRUE, at |-> t, stale |-> FALSE]

\* What a reader was given: the snapshot as it was at that moment, and the
\* clock of the last successful click before it (0: none yet).
NoRead == [by |-> "none", snapshot |-> NoSnapshot, clicked_at |-> 0]
Given(reader, snap, c) == [by |-> reader, snapshot |-> snap, clicked_at |-> c]

\* the extractor of this request has not been given a document
ExtractorIdle ==
  /\ html_arg = Document(<< >>, "none")
  /\ soup = <<>>
  /\ base_url = NoUrl
  /\ title = <<>>
  /\ body = <<>>
  /\ images = <<>>

\* the request is looked at on its own: no other request is being served
ServerIdle ==
  /\ requests = <<>>
  /\ services = <<>>
  /\ thread = "idle"

Init ==
  /\ pc = "start"
  /\ max_popup_retries \in 0..MaxRetries
  /\ browser = FALSE
  /\ self_playwright = FALSE
  /\ self_browser = FALSE
  /\ self_page = FALSE
  /\ open = {}
  /\ now = 0
  /\ html = NoSnapshot
  /\ final_html = NoSnapshot
  /\ clicked_at = 0
  /\ last_read = NoRead
  /\ attempt = 0
  /\ oracle_outcome = "none"
  /\ popup_result = Null
  /\ idx = 0
  /\ clicked_any = FALSE
  /\ selector = Null
  /\ button_text = Null
  /\ tried = <<>>
  /\ loop_end = "none"
  /\ frames = 0
  /\ fi = 0
  /\ effects = 0
  /\ click_result = "none"
  /\ content = NoContent
  /\ outcome = "none"
  /\ exc = "none"
  /\ oracleCalls = 0
  /\ clickCalls = 0
  /\ extractCalls = 0
  /\ refreshCalls = 0
  /\ clickedAttempts = 0
  /\ attempted = <<>>
  /\ ExtractorIdle
  /\ ServerIdle

\* an exception leaves the try block of extract_content
Raise(e) == pc' = "except" /\ exc' = e

\* AttributeError / TypeError raised in the popup loop by a reply that is
\* valid JSON of another shape than the loop expects
ShapeErrors == {"ReplyNotObject", "ElementsNotIterable", "ElementNotObject",
                "ConfidenceNotNumber"}

(***************************************************************************)
(* extract_content, up to the popup loop.                                  *)
(***************************************************************************)
\* main.py 117-128: the services are constructed; nothing is acquired yet
CreateServices ==
  /\ pc = "start"
  /\ browser' = TRUE
  /\ pc' = "load_page"
  /\ UNCHANGED << max_popup_retries, extractorVars, serverVars, driverVars, snapVars, loopVars, clickVars,
                  endVars, countVars >>

\* load_page: `if not self.page: await self._init_browser()`
LoadPageEntry ==
  /\ pc = "load_page"
  /\ pc' = IF self_page THEN "goto" ELSE "init_playwright"
  /\ UNCHANGED << max_popup_retries, extractorVars, serverVars, browser, driverVars, snapVars, loopVars,
                  clickVars, endVars, countVars >>

\* _init_browser: async_playwright().start()
StartPlaywright ==
  /\ pc = "init_playwright"
  /\ \/ /\ self_playwright' = TRUE
        /\ open' = open \cup {"playwright"}
        /\ pc' = "init_launch"
        /\ exc' = exc
     \/ /\ Raise("DriverInit")
        /\ UNCHANGED << self_playwright, open >>
  /\ UNCHANGED << max_popup_retries, extractorVars, serverVars, browser, self_browser, self_page, snapVars,
                  loopVars, clickVars, content, outcome, countVars >>

\* _init_browser: playwright.chromium.launch(...)
LaunchBrowser ==
  /\ pc = "init_launch"
  /\ \/ /\ self_browser' = TRUE
        /\ open' = open \cup {"browser"}
        /\ pc' = "init_page"
        /\ exc' = exc
     \/ /\ Raise("DriverInit")
        /\ UNCHANGED << self_browser, open >>
  /\ UNCHANGED << max_popup_retries, extractorVars, serverVars, browser, self_playwright, self_page,
                  snapVars, loopVars, clickVars, content, outcome, countVars >>

\* _init_browser: new_context(), new_page(), set_default_timeout(); a context
\* or page opened before the failure belongs to the browser, which is held
NewPage ==
  /\ pc = "init_page"
  /\ \/ /\ self_page' = TRUE
        /\ open' = open \cup {"page"}
        /\ pc' = "goto"
        /\ exc' = exc
     \/ /\ Raise("DriverInit")
        /\ UNCHANGED << self_page, open >>
  /\ UNCHANGED << max_popup_retries, extractorVars, serverVars, browser, self_playwright, self_browser,
                  snapVars, loopVars, clickVars, content, outcome, countVars >>

\* load_page: page.goto(url, wait_until='networkidle'), wait_for_timeout(3000)
Goto ==
  /\ pc = "goto"
  /\ \/ /\ pc' = "load_content"
        /\ now' = now + LoadWait
        /\ exc' = exc
     \/ /\ Raise("Navigation")
        /\ now' = now
  /\ UNCHANGED << max_popup_retries, extractorVars, serverVars, browser, driverVars, html, final_html,
                  clicked_at, last_read, loopVars, clickVars, content, outcome,
                  countVars >>

\* load_page: html = await self.page.content()
LoadContent ==
  /\ pc = "load_content"
  /\ \/ /\ pc' = "loop"
        /\ html' = Snapshot(now)
        /\ exc' = exc
     \/ /\ Raise("Navigation")
        /\ html' = html
  /\ UNCHANGED << max_popup_retries, extractorVars, serverVars, browser, driverVars, now, final_html,
                  clicked_at, last_read, loopVars, clickVars, content, outcome,
                  countVars >>

(***************************************************************************)
(* The popup loop of extract_content.                                      *)
(***************************************************************************)
range_off_by_one(i, n) == i <= n

\* `for attempt in range(settings.max_popup_retries)`: is there a next item
\* after i iterations
range_has_next(i, n) == i < n

\* The loop is left (break, exhaustion or an exception).  Nothing reads
\* popup_result or the element iterator after the loop; they are forgotten.
LeaveLoop(why) ==
  /\ loop_end' = why
  /\ popup_result' = Null
  /\ idx' = 0
  /\ tried' = <<>>

LoopHead ==
  /\ pc = "loop"
  /\ IF range_has_next(attempt, max_popup_retries)
       THEN /\ attempt' = attempt + 1
            /\ tried' = <<>>
            /\ pc' = "detect"
            /\ UNCHANGED << popup_result, idx, loop_end >>
       ELSE /\ pc' = "settle3"
            /\ LeaveLoop("exhausted")
            /\ UNCHANGED attempt
  /\ UNCHANGED << max_popup_retries, extractorVars, serverVars, browser, driverVars, snapVars,
                  oracle_outcome, clicked_any, clickVars, endVars, countVars >>

\* popup_result = popup_detector.detect_popups(html)
DetectPopups ==
  /\ pc = "detect"
  /\ \E o \in OracleOutcomes :
       LET r == detect_popups(o) IN
         /\ oracle_outcome' = o.kind
         /\ IF r.raised
              THEN Raise("OracleCall") /\ LeaveLoop("raised")
              ELSE /\ pc' = "check_found"
                   /\ popup_result' = r.value
                   /\ UNCHANGED << idx, tried, loop_end, exc >>
  /\ last_read' = Given("oracle", html, clicked_at)
  /\ oracleCalls' = oracleCalls + 1
  /\ UNCHANGED << max_popup_retries, extractorVars, serverVars, browser, driverVars, now, html,
                  final_html, clicked_at, attempt, clicked_any, clickVars,
                  content, outcome, clickCalls, extractCalls, refreshCalls,
                  clickedAttempts >>

\* main.py local: popup_result.get("elements", [])
elements == Get(popup_result, "elements", Arr(<<>>))

\* `for element in elements` needs an iterable; of the values the oracle
\* sends here only a list is one (null raises TypeError)
Iterable(v) == v.type = "array"

popups_found_default_true(r) == Truthy(Get(r, "popups_found", Bool(TRUE)))

\* popup_result.get("popups_found", False), as `if not ...` reads it
popups_found(r) == Truthy(Get(r, "popups_found", Bool(FALSE)))

\* `if not popup_result.get("popups_found", False): break`, then the for-loop
\* over elements is set up
CheckFound ==
  /\ pc = "check_found"
  /\ IF ~IsDict(popup_result)
       THEN Raise("ReplyNotObject") /\ LeaveLoop("raised") /\ UNCHANGED clicked_any
       ELSE IF ~popups_found(popup_result)
         THEN pc' = "settle3" /\ LeaveLoop("clean") /\ UNCHANGED << clicked_any, exc >>
         ELSE IF ~Iterable(elements)
           THEN /\ Raise("ElementsNotIterable")
                /\ LeaveLoop("raised")
                /\ clicked_any' = FALSE
           ELSE /\ clicked_any' = FALSE
                /\ idx' = 1
                /\ pc' = "scan"
                /\ UNCHANGED << popup_result, tried, loop_end, exc >>
  /\ UNCHANGED << max_popup_retries, extractorVars, serverVars, browser, driverVars, snapVars, attempt,
                  oracle_outcome, clickVars, content, outcome, countVars >>

\* `confidence > 0.3 and selector` for a dict element with a comparable
\* confidence
Qualifies(element) ==
  /\ AboveThreshold(Get(element, "confidence", Num(0)))
  /\ Truthy(Get(element, "selector", Null))

\* one iteration of `for element in elements`, up to the call of click_element
Scan ==
  /\ pc = "scan"
  /\ IF idx > Len(elements.items)
       THEN /\ pc' = "after_scan"
            /\ UNCHANGED << selector, button_text, tried, clickCalls, idx,
                            popup_result, loop_end, exc >>
       ELSE LET element == elements.items[idx] IN
         IF ~IsDict(element) \/ ~Comparable(Get(element, "confidence", Num(0)))
           THEN /\ Raise(IF ~IsDict(element) THEN "ElementNotObject"
                                            ELSE "ConfidenceNotNumber")
                /\ LeaveLoop("raised")
                /\ UNCHANGED << selector, button_text, clickCalls >>
           ELSE IF Qualifies(element)
             THEN /\ selector' = Get(element, "selector", Null)
                  /\ button_text' = Get(element, "button_text", Str(""))
                  /\ tried' = Append(tried, idx)
                  /\ clickCalls' = clickCalls + 1
                  /\ pc' = "click_entry"
                  /\ UNCHANGED << idx, popup_result, loop_end, exc >>
             ELSE /\ idx' = idx + 1
                  /\ pc' = "scan"
                  /\ UNCHANGED << selector, button_text, tried, clickCalls,
                                  popup_result, loop_end, exc >>
  /\ UNCHANGED << max_popup_retries, extractorVars, serverVars, browser, driverVars, snapVars, attempt,
                  oracle_outcome, clicked_any, frames, fi, effects,
                  click_result, attempted, content, outcome, oracleCalls,
                  extractCalls, refreshCalls, clickedAttempts >>

\* `if await browser.click_element(...)`: clicked_any = True; break
\* click_element has returned: its frame (arguments, locals) is gone
FrameGone ==
  /\ selector' = Null
  /\ button_text' = Null
  /\ frames' = 0
  /\ fi' = 0
  /\ effects' = 0
  /\ click_result' = "none"
  /\ attempted' = <<>>

NoBreakAfterSuccess == [pc |-> "scan", step |-> 1]

\* `break  # Stop after first successful click`: where the scan goes after a
\* successful click, and by how much the iterator moves
AfterSuccess == [pc |-> "after_scan", step |-> 0]

AfterClick ==
  /\ pc = "click_return"
  /\ IF click_result = "raised"
       THEN /\ Raise("Interaction")
            /\ LeaveLoop("raised")
            /\ UNCHANGED << clicked_any, clicked_at, clickedAttempts >>
       ELSE IF click_result = "true"
         THEN /\ clicked_any' = TRUE
              /\ clicked_at' = now
              /\ clickedAttempts' = clickedAttempts + 1
              /\ pc' = AfterSuccess.pc
              /\ idx' = idx + AfterSuccess.step
              /\ UNCHANGED << tried, popup_result, loop_end, exc >>
         ELSE /\ idx' = idx + 1
              /\ pc' = "scan"
              /\ UNCHANGED << clicked_any, clicked_at, clickedAttempts, tried,
                              popup_result, loop_end, exc >>
  /\ FrameGone
  /\ UNCHANGED << max_popup_retries, extractorVars, serverVars, browser, driverVars, now, html,
                  final_html, last_read, attempt, oracle_outcome, content,
                  outcome, oracleCalls, clickCalls, extractCalls, refreshCalls >>

RetriesAfterStall == "loop"

\* `else: logger.warning("Could not click any popup elements"); break`: where
\* the request goes when no click of the attempt succeeded
AfterStall == "settle3"

\* `if clicked_any: ... else: break`
AfterScan ==
  /\ pc = "after_scan"
  /\ IF clicked_any
       THEN pc' = "settle5" /\ UNCHANGED << popup_result, idx, tried, loop_end >>
       ELSE pc' = AfterStall /\ LeaveLoop("stalled")
  /\ UNCHANGED << max_popup_retries, extractorVars, serverVars, browser, driverVars, snapVars, attempt,
                  oracle_outcome, clicked_any, clickVars, endVars, countVars >>

\* await asyncio.sleep(5)
Settle5 ==
  /\ pc = "settle5"
  /\ now' = now + PopupSettle
  /\ pc' = "refresh"
  /\ UNCHANGED << max_popup_retries, extractorVars, serverVars, browser, driverVars, html, final_html,
                  clicked_at, last_read, loopVars, clickVars, endVars,
                  countVars >>

KeepsOldSnapshot(old, t) == old

\* get_html: what `html = await browser.get_html()` assigns at clock t
Refreshed(old, t) == Snapshot(t)

\* html = await browser.get_html(), inside the loop
Refresh ==
  /\ pc = "refresh"
  /\ \/ /\ self_page
        /\ html' = Refreshed(html, now)
        /\ refreshCalls' = refreshCalls + 1
        /\ pc' = "loop"
        /\ UNCHANGED << popup_result, idx, tried, loop_end, exc >>
     \/ /\ Raise("Snapshot")
        /\ LeaveLoop("raised")
        /\ UNCHANGED << html, refreshCalls >>
  /\ UNCHANGED << max_popup_retries, extractorVars, serverVars, browser, driverVars, now, final_html,
                  clicked_at, last_read, attempt, oracle_outcome, clicked_any,
                  clickVars, content, outcome, oracleCalls, clickCalls,
                  extractCalls, clickedAttempts >>

(***************************************************************************)
(* After the loop: settle, final snapshot, extraction, response.           *)
(***************************************************************************)
\* await asyncio.sleep(3)
Settle3 ==
  /\ pc = "settle3"
  /\ now' = now + FinalSettle
  /\ pc' = "final_html"
  /\ UNCHANGED << max_popup_retries, extractorVars, serverVars, browser, driverVars, html, final_html,
                  clicked_at, last_read, loopVars, clickVars, endVars,
                  countVars >>

\* final_html = await browser.get_html()
FinalHtml ==
  /\ pc = "final_html"
  /\ \/ /\ self_page
        /\ final_html' = Snapshot(now)
        /\ pc' = "extract"
        /\ exc' = exc
     \/ /\ Raise("Snapshot")
        /\ final_html' = final_html
  /\ UNCHANGED << max_popup_retries, extractorVars, serverVars, browser, driverVars, now, html,
                  clicked_at, last_read, loopVars, clickVars, content, outcome,
                  countVars >>

\* content = content_extractor.extract_content(final_html, url)
Extract ==
  /\ pc = "extract"
  /\ \E d \in Docs : content' = extract_content(d, Url(Https, News))
  /\ last_read' = Given("extractor", final_html, clicked_at)
  /\ extractCalls' = extractCalls + 1
  /\ pc' = "validate"
  /\ UNCHANGED << max_popup_retries, extractorVars, serverVars, browser, driverVars, now, html,
                  final_html, clicked_at, loopVars, clickVars, outcome, exc,
                  oracleCalls, clickCalls, refreshCalls, clickedAttempts >>

\* the 404 check and the response
Validate ==
  /\ pc = "validate"
  /\ IF Len(content.title) = 0 /\ Len(content.body) = 0
       THEN Raise("NotFound") /\ outcome' = outcome
       ELSE pc' = "finally" /\ outcome' = "200" /\ exc' = exc
  /\ UNCHANGED << max_popup_retries, extractorVars, serverVars, browser, driverVars, snapVars, loopVars,
                  clickVars, content, countVars >>

StatusAlways500(e) == "500"

\* the status the except clauses answer with: the HTTPException of the 404
\* check is re-raised as it is, any other exception becomes a 500
StatusOf(e) == IF e = "NotFound" THEN "404" ELSE "500"

\* `except HTTPException: raise` and `except Exception: raise HTTPException(500)`
HandleException ==
  /\ pc = "except"
  /\ outcome' = StatusOf(exc)
  /\ pc' = "finally"
  /\ UNCHANGED << max_popup_retries, extractorVars, serverVars, browser, driverVars, snapVars, loopVars,
                  clickVars, content, exc, countVars >>

\* `finally: if browser: await browser.close()`
Finally ==
  /\ pc = "finally"
  /\ pc' = IF browser THEN "close_page" ELSE "done"
  /\ UNCHANGED << max_popup_retries, extractorVars, serverVars, browser, driverVars, snapVars, loopVars,
                  clickVars, endVars, countVars >>

\* an exception raised by close() leaves the finally block and the handler:
\* it replaces the response (the server answers with its own 500)
CloseRaises ==
  /\ pc' = "done"
  /\ exc' = exc
  /\ outcome' = "unhandled"

\* close(): `if self.page: await self.page.close(); self.page = None`
ClosePage ==
  /\ pc = "close_page"
  /\ \/ /\ ~self_page
        /\ pc' = "close_browser"
        /\ UNCHANGED << self_page, open, exc, outcome >>
     \/ /\ self_page
        /\ self_page' = FALSE
        /\ open' = open \ {"page"}
        /\ pc' = "close_browser"
        /\ UNCHANGED << exc, outcome >>
     \/ /\ self_page
        /\ CloseRaises
        /\ UNCHANGED << self_page, open >>
  /\ UNCHANGED << max_popup_retries, extractorVars, serverVars, browser, self_playwright, self_browser,
                  snapVars, loopVars, clickVars, content, countVars >>

\* close(): `if self.browser: await self.browser.close(); self.browser = None`
\* (closing a browser closes its pages)
CloseBrowser ==
  /\ pc = "close_browser"
  /\ \/ /\ ~self_browser
        /\ pc' = "close_playwright"
        /\ UNCHANGED << self_browser, open, exc, outcome >>
     \/ /\ self_browser
        /\ self_browser' = FALSE
        /\ open' = open \ {"browser", "page"}
        /\ pc' = "close_playwright"
        /\ UNCHANGED << exc, outcome >>
     \/ /\ self_browser
        /\ CloseRaises
        /\ UNCHANGED << self_browser, open >>
  /\ UNCHANGED << max_popup_retries, extractorVars, serverVars, browser, self_playwright, self_page,
                  snapVars, loopVars, clickVars, content, countVars >>

\* close(): `if self.playwright: await self.playwright.stop(); self.playwright = None`
StopPlaywright ==
  /\ pc = "close_playwright"
  /\ \/ /\ ~self_playwright
        /\ pc' = "done"
        /\ UNCHANGED << self_playwright, open, exc, outcome >>
     \/ /\ self_playwright
        /\ self_playwright' = FALSE
        /\ open' = {}
        /\ pc' = "done"
        /\ UNCHANGED << exc, outcome >>
     \/ /\ self_playwright
        /\ CloseRaises
        /\ UNCHANGED << self_playwright, open >>
  /\ UNCHANGED << max_popup_retries, extractorVars, serverVars, browser, self_browser, self_page,
                  snapVars, loopVars, clickVars, content, countVars >>

(***************************************************************************)
(* BrowserService.click_element.  Each strategy is one try block: a click  *)
(* primitive, then wait_for_timeout(1000), then `return True`; its except  *)
(* clause falls through to the next strategy.                              *)
(***************************************************************************)
\* `return`: the value goes to the caller
ClickReturns(r) == click_result' = r /\ pc' = "click_return"

NoPageRaises == "raised"

\* `if not self.page: return False`
NoPageResult == "false"

\* one strategy was tried: its try block ran to `return True` (ok) or
\* ended in its except clause
Tried(strategy, ok) == [strategy |-> strategy, ok |-> ok]

\* the try block of one strategy, whose except clause continues at `next`
ClickThenPause(strategy, next) ==
  \/ /\ pc' = next                      \* the click raised or timed out
     /\ attempted' = Append(attempted, Tried(strategy, FALSE))
     /\ UNCHANGED << effects, html, now, click_result >>
  \/ /\ effects' = effects + 1          \* clicked, paused, return True
     /\ html' = [html EXCEPT !.stale = TRUE]
     /\ now' = now + ClickPause
     /\ attempted' = Append(attempted, Tried(strategy, TRUE))
     /\ ClickReturns("true")
  \/ /\ effects' = effects + 1          \* clicked, but the pause raised
     /\ html' = [html EXCEPT !.stale = TRUE]
     /\ pc' = next
     /\ attempted' = Append(attempted, Tried(strategy, FALSE))
     /\ UNCHANGED << now, click_result >>

clickFrame == << max_popup_retries, extractorVars, serverVars, browser, driverVars, final_html, clicked_at,
                 last_read, loopVars, selector, button_text, endVars, countVars >>

ClickEntry ==
  /\ pc = "click_entry"
  /\ IF ~self_page
       THEN ClickReturns(NoPageResult)
       ELSE pc' = "click_s1" /\ click_result' = "none"
  /\ effects' = 0
  /\ attempted' = <<>>
  /\ UNCHANGED << clickFrame, frames, fi, html, now >>

TextStrategyAlways(text) == TRUE

\* `if button_text:` guards strategy 2
TextStrategyApplies(text) == Truthy(text)

\* Strategy 1: page.click(selector, timeout=5000)
Strategy1 ==
  /\ pc = "click_s1"
  /\ ClickThenPause("direct", IF TextStrategyApplies(button_text)
                                THEN "click_s2a" ELSE "click_s3")
  /\ UNCHANGED << clickFrame, frames, fi >>

\* Strategy 2, first try: page.click("button:has-text('...')")
Strategy2Button ==
  /\ pc = "click_s2a"
  /\ ClickThenPause("text_button", "click_s2b")
  /\ UNCHANGED << clickFrame, frames, fi >>

\* Strategy 2, second try: page.click(":has-text('...')")
Strategy2Any ==
  /\ pc = "click_s2b"
  /\ ClickThenPause("text_any", "click_s3")
  /\ UNCHANGED << clickFrame, frames, fi >>

\* Strategy 3: page.click(selector, timeout=5000, force=True)
Strategy3 ==
  /\ pc = "click_s3"
  /\ ClickThenPause("forced", "click_s4")
  /\ UNCHANGED << clickFrame, frames, fi >>

\* Strategy 4: query_selector, then element.evaluate("el => el.click()");
\* no element, like a raise, leads to strategy 5
Strategy4 ==
  /\ pc = "click_s4"
  /\ ClickThenPause("programmatic", "click_s5")
  /\ UNCHANGED << clickFrame, frames, fi >>

\* Strategy 5: frames = self.page.frames
Strategy5Frames ==
  /\ pc = "click_s5"
  /\ frames' \in 1..MaxFrames
  /\ fi' = 1
  /\ pc' = "click_frame"
  /\ UNCHANGED << clickFrame, effects, click_result, attempted, html, now >>

\* Strategy 5: one frame of `for frame in frames`; `except: continue`
Strategy5Frame ==
  /\ pc = "click_frame"
  /\ IF fi > frames
       THEN /\ ClickReturns("false")
            /\ UNCHANGED << fi, effects, attempted, html, now >>
       ELSE /\ ClickThenPause("cross_frame", "click_frame")
            /\ fi' = fi + 1
  /\ UNCHANGED << clickFrame, frames >>

ClickNext ==
  \/ ClickEntry
  \/ Strategy1
  \/ Strategy2Button
  \/ Strategy2Any
  \/ Strategy3
  \/ Strategy4
  \/ Strategy5Frames
  \/ Strategy5Frame

Next ==
  \/ CreateServices
  \/ LoadPageEntry
  \/ StartPlaywright
  \/ LaunchBrowser
  \/ NewPage
  \/ Goto
  \/ LoadContent
  \/ LoopHead
  \/ DetectPopups
  \/ CheckFound
  \/ Scan
  \/ ClickNext
  \/ AfterClick
  \/ AfterScan
  \/ Settle5
  \/ Refresh
  \/ Settle3
  \/ FinalHtml
  \/ Extract
  \/ Validate
  \/ HandleException
  \/ Finally
  \/ ClosePage
  \/ CloseBrowser
  \/ StopPlaywright

Spec == Init /\ [][Next]_vars

\* every step of a request completes: sleeps end, driver calls return or
\* time out, the oracle client returns or raises
FairSpec == Spec /\ WF_vars(Next)

(***************************************************************************)
(* click_element on its own: any caller, with or without a page, any       *)
(* selector and button text.                                               *)
(***************************************************************************)
ClickInit ==
  /\ pc = "click_entry"
  /\ max_popup_retries \in 0..MaxRetries
  /\ browser = TRUE
  /\ self_page \in BOOLEAN
  /\ self_playwright = self_page
  /\ self_browser = self_page
  /\ open = IF self_page THEN {"playwright", "browser", "page"} ELSE {}
  /\ now = IF self_page THEN LoadWait ELSE 0
  /\ html = IF self_page THEN Snapshot(LoadWait) ELSE NoSnapshot
  /\ final_html = NoSnapshot
  /\ clicked_at = 0
  /\ last_read = NoRead
  /\ attempt = 0
  /\ oracle_outcome = "none"
  /\ popup_result = Null
  /\ idx = 0
  /\ clicked_any = FALSE
  /\ selector \in {Str("#accept"), Str("")}
  /\ button_text \in {Null, Str(""), Str("Accept")}
  /\ tried = <<>>
  /\ loop_end = "none"
  /\ frames = 0
  /\ fi = 0
  /\ effects = 0
  /\ click_result = "none"
  /\ content = NoContent
  /\ outcome = "none"
  /\ exc = "none"
  /\ oracleCalls = 0
  /\ clickCalls = 1
  /\ extractCalls = 0
  /\ refreshCalls = 0
  /\ clickedAttempts = 0
  /\ attempted = <<>>
  /\ ExtractorIdle
  /\ ServerIdle

ClickSpec == ClickInit /\ [][ClickNext]_vars

(***************************************************************************)
(* LocalContentExtractor.extract_content on its own, stage by stage, for   *)
(* any document and page URL.                                              *)
(***************************************************************************)
\* no request handler is running: the extractor, or the service's event
\* loop, is looked at on its own
HandlerIdle ==
  /\ browser = FALSE
  /\ self_playwright = FALSE
  /\ self_browser = FALSE
  /\ self_page = FALSE
  /\ open = {}
  /\ now = 0
  /\ html = NoSnapshot
  /\ final_html = NoSnapshot
  /\ clicked_at = 0
  /\ last_read = NoRead
  /\ attempt = 0
  /\ oracle_outcome = "none"
  /\ popup_result = Null
  /\ idx = 0
  /\ clicked_any = FALSE
  /\ selector = Null
  /\ button_text = Null
  /\ tried = << >>
  /\ loop_end = "none"
  /\ frames = 0
  /\ fi = 0
  /\ effects = 0
  /\ click_result = "none"
  /\ attempted = << >>
  /\ outcome = "none"
  /\ exc = "none"
  /\ oracleCalls = 0
  /\ clickCalls = 0
  /\ extractCalls = 0
  /\ refreshCalls = 0
  /\ clickedAttempts = 0

handlerVars == << max_popup_retries, browser, driverVars, snapVars, loopVars,
                  clickVars, outcome, exc, countVars, serverVars >>

ExtractorInit ==
  /\ pc = "x_parse"
  /\ html_arg \in ExtractorDocs
  \* request.url is an HttpUrl whose scheme is http or https
  /\ base_url \in { Url(Http, << "h" >>), Url(Https, News) }
  /\ soup = << >>
  /\ title = << >>
  /\ body = << >>
  /\ images = << >>
  /\ content = NoContent
  /\ max_popup_retries = 0
  /\ HandlerIdle
  /\ ServerIdle

Propagates == "x_raised"

\* `except Exception as e:` of extract_content: where a raising stage goes
Caught == "x_except"

\* soup = BeautifulSoup(html, 'html.parser')
ExtractorParse ==
  /\ pc = "x_parse"
  /\ IF html_arg.fails = "parse"
       THEN pc' = Caught /\ soup' = soup
       ELSE pc' = "x_title" /\ soup' = html_arg.nodes
  /\ UNCHANGED << html_arg, base_url, title, body, images, content, handlerVars >>

\* title = self._extract_title(soup)
ExtractorTitle ==
  /\ pc = "x_title"
  /\ IF html_arg.fails = "title"
       THEN pc' = Caught /\ title' = title
       ELSE pc' = "x_body" /\ title' = _extract_title(soup)
  /\ UNCHANGED << html_arg, base_url, soup, body, images, content, handlerVars >>

\* body = self._extract_body(soup); the unwanted tags are removed from soup
\* itself
ExtractorBody ==
  /\ pc = "x_body"
  /\ IF html_arg.fails = "body"
       THEN pc' = Caught /\ UNCHANGED << soup, body >>
       ELSE /\ pc' = "x_images"
            /\ soup' = decompose(soup)
            /\ body' = _extract_body(decompose(soup))
  /\ UNCHANGED << html_arg, base_url, title, images, content, handlerVars >>

\* images = self._extract_images(soup, url)
ExtractorImages ==
  /\ pc = "x_images"
  /\ IF html_arg.fails = "images"
       THEN pc' = Caught /\ images' = images
       ELSE pc' = "x_return" /\ images' = _extract_images(soup, base_url)
  /\ UNCHANGED << html_arg, base_url, soup, title, body, content, handlerVars >>

\* return {"title": title, "body": body, "images": images}
ExtractorReturn ==
  /\ pc = "x_return"
  /\ content' = [title |-> title, body |-> body, images |-> images]
  /\ pc' = "x_done"
  /\ UNCHANGED << extractorVars, handlerVars >>

\* return {"title": "", "body": "", "images": []}
ExtractorExcept ==
  /\ pc = "x_except"
  /\ content' = NoContent
  /\ pc' = "x_done"
  /\ UNCHANGED << extractorVars, handlerVars >>

ExtractorNext ==
  \/ ExtractorParse
  \/ ExtractorTitle
  \/ ExtractorBody
  \/ ExtractorImages
  \/ ExtractorReturn
  \/ ExtractorExcept

ExtractorSpec == ExtractorInit /\ [][ExtractorNext]_vars

(***************************************************************************)
(* The whitespace clean-up of _extract_body on its own: any joined text,   *)
(* cleaned, and the result cleaned once more.                              *)
(***************************************************************************)
JoinedInit ==
  /\ pc = "joined"
  /\ html_arg = Document(<< >>, "none")
  /\ base_url = NoUrl
  /\ soup = << >>
  /\ title = << >>
  /\ body \in UNION { [1..n -> {"a", " ", "\n", "\t"}] : n \in 0..MaxText }
  /\ images = << >>
  /\ content = NoContent
  /\ max_popup_retries = 0
  /\ HandlerIdle
  /\ ServerIdle

\* body = re.sub(...); body = re.sub(...); return body.strip()
CleanUp ==
  /\ pc = "joined"
  /\ body' = clean_up(body)
  /\ pc' = "cleaned"
  /\ UNCHANGED << html_arg, base_url, soup, title, images, content, handlerVars >>

\* the same three rules applied to their own output
CleanUpAgain ==
  /\ pc = "cleaned"
  /\ body' = clean_up(body)
  /\ pc' = "cleaned_again"
  /\ UNCHANGED << html_arg, base_url, soup, title, images, content, handlerVars >>

CleanUpNext ==
  \/ CleanUp
  \/ CleanUpAgain

CleanUpSpec == JoinedInit /\ [][CleanUpNext]_vars

(***************************************************************************)
(* The service: two /extract requests on the one event loop of the         *)
(* process.  A request runs on the loop's thread until it awaits; what it  *)
(* calls without await runs on that thread until it returns.               *)
(***************************************************************************)
Requests == {"A", "B"}

\* the operation is awaited: `await browser.load_page(url)`, `await
\* asyncio.sleep(5)`, ...; popup_detector.detect_popups(html) is a plain call
\* of a function that uses the synchronous OpenAI client
Suspends(op) == op # "detect_popups"

\* the operations that can follow `op` in extract_content, `n` being the
\* number of loop iterations started; an operation that raises (load_page,
\* get_html, a reply of unexpected shape after detect_popups) is followed by
\* the close() of the finally block
Following(op, n) ==
  CASE op = "load_page" ->
         (IF n < max_popup_retries THEN {"detect_popups"} ELSE {"final_sleep"})
         \cup {"close"}
    [] op = "detect_popups" -> {"click_element", "final_sleep", "close"}
    [] op = "click_element" -> {"click_element", "sleep", "final_sleep"}
    [] op = "sleep" -> {"get_html"}
    [] op = "get_html" ->
         (IF n < max_popup_retries THEN {"detect_popups"} ELSE {"final_sleep"})
         \cup {"close"}
    [] op = "final_sleep" -> {"final_get_html"}
    [] op = "final_get_html" -> {"extract_content", "close"}
    [] op = "extract_content" -> {"close"}
    [] op = "close" -> {"done"}

\* the locals of an extract_content call that has not bound any yet, and of
\* one that has returned: `browser` is the BrowserService object the local
\* refers to (0: None), `html` the number of clicks the page had taken when
\* the snapshot was read (-1: not read)
NoLocals == [attempts |-> 0, browser |-> 0, html |-> 0 - 1]

ServeInit ==
  /\ pc = "serving"
  /\ max_popup_retries \in 0..MaxRetries
  /\ requests = [r \in Requests |-> [at |-> "load_page", phase |-> "ready"] @@ NoLocals]
  /\ services = <<>>
  /\ thread = "idle"
  /\ content = NoContent
  /\ HandlerIdle
  /\ ExtractorIdle

serveFrame == << pc, max_popup_retries, browser, driverVars, snapVars, loopVars,
                 clickVars, endVars, countVars, extractorVars >>

\* the event loop runs a request that is ready
Resume(r) ==
  /\ thread = "idle"
  /\ requests[r].phase = "ready"
  /\ requests' = [requests EXCEPT ![r].phase = "running"]
  /\ thread' = r
  /\ UNCHANGED << services, serveFrame >>

SharedBrowserService(heap) == 1

\* `browser = BrowserService(...)`: the call makes a new object, which the
\* request's local `browser` refers to
BrowserService(heap) == Len(heap) + 1

\* the running request starts its next external operation and waits for it:
\* an awaited one gives the thread back to the loop, a plain call keeps it.
\* Before load_page, the first of them, the request constructs its services.
Start(r) ==
  /\ thread = r
  /\ requests[r].phase = "running"
  /\ requests[r].at \in {"load_page", "detect_popups", "click_element", "sleep",
                        "get_html", "final_sleep", "final_get_html", "close"}
  /\ LET made == BrowserService(services)
         object == [owner |-> r, page |-> "none", clicks |-> 0] IN
       IF requests[r].at = "load_page"
         THEN /\ services' = [i \in 1..(IF made > Len(services) THEN made
                                         ELSE Len(services)) |->
                               IF i = made THEN object ELSE services[i]]
              /\ requests' = [requests EXCEPT ![r].phase = "waiting",
                                              ![r].browser = made]
         ELSE /\ services' = services
              /\ requests' = [requests EXCEPT ![r].phase = "waiting",
                                ![r].attempts = IF requests[r].at = "detect_popups"
                                                  THEN @ + 1 ELSE @]
  /\ thread' = IF Suspends(requests[r].at) THEN "idle" ELSE r
  /\ UNCHANGED serveFrame

\* the operation a request waits for is over (it returned, raised or timed
\* out): the request is ready again, or goes on at once if it kept the
\* thread.  load_page opens the page of the request's BrowserService and
\* get_html reads it into the local html; a click_element that returned
\* true changed that page; close() closes it, unless it raises.
Completes(r) ==
  /\ requests[r].phase = "waiting"
  /\ LET q == requests[r]
         mine == q.browser IN
       \E op \in Following(q.at, q.attempts), closed \in BOOLEAN :
         /\ q.at # "close" => ~closed
         /\ requests' = [requests EXCEPT ![r] =
              [q EXCEPT !.at = op,
                        !.phase = IF thread = r THEN "running" ELSE "ready",
                        !.html = IF /\ q.at \in {"load_page", "get_html", "final_get_html"}
                                    /\ op # "close"
                                   THEN services[mine].clicks ELSE @]]
         /\ services' =
              CASE q.at = "load_page" /\ op # "close" ->
                     [services EXCEPT ![mine].page = "open"]
                [] q.at = "click_element" /\ op = "sleep" ->
                     [services EXCEPT ![mine].clicks = @ + 1]
                [] q.at = "close" /\ closed ->
                     [services EXCEPT ![mine].page = "closed"]
                [] OTHER -> services
  /\ UNCHANGED << thread, serveFrame >>

\* content_extractor.extract_content(final_html, url): computed on the thread
Computes(r) ==
  /\ thread = r
  /\ requests[r].phase = "running"
  /\ requests[r].at = "extract_content"
  /\ requests' = [requests EXCEPT ![r].at = "close"]
  /\ UNCHANGED << services, thread, serveFrame >>

\* the handler returns: the frame of the call, with its locals, is gone
Returns(r) ==
  /\ thread = r
  /\ requests[r].phase = "running"
  /\ requests[r].at = "done"
  /\ requests' = [requests EXCEPT ![r] = [at |-> "done", phase |-> "returned"] @@ NoLocals]
  /\ thread' = "idle"
  /\ UNCHANGED << services, serveFrame >>

ServeNext ==
  \E r \in Requests :
    \/ Resume(r)
    \/ Start(r)
    \/ Completes(r)
    \/ Computes(r)
    \/ Returns(r)

ServeSpec == ServeInit /\ [][ServeNext]_vars

(***************************************************************************)
(* Properties.                                                             *)
(***************************************************************************)
ClickPcs == {"click_entry", "click_s1", "click_s2a", "click_s2b", "click_s3",
             "click_s4", "click_s5", "click_frame", "click_return"}

PostLoop == {"settle3", "final_html", "extract", "validate", "except",
             "finally", "close_page", "close_browser", "close_playwright",
             "done"}

\* the candidate is an object whose confidence is a number strictly above
\* 0.3 and whose selector is a non-empty string
MeetsBar(e) ==
  /\ e.type = "object"
  /\ "confidence" \in DOMAIN e.fields
  /\ e.fields["confidence"].type = "number"
  /\ e.fields["confidence"].num > 30
  /\ "selector" \in DOMAIN e.fields
  /\ e.fields["selector"].type = "string"
  /\ e.fields["selector"].str # ""

\* the indexes 1..n of the current reply's candidates that meet the bar, in
\* the oracle's order
RECURSIVE BarIndexes(_)
BarIndexes(n) ==
  IF n = 0 THEN <<>>
  ELSE IF MeetsBar(elements.items[n])
    THEN Append(BarIndexes(n - 1), n)
    ELSE BarIndexes(n - 1)

\* C1: for every max_popup_retries = N >= 0 the oracle is queried at most N
\* times in a request, and the popup loop always ends: the request reaches
\* the final settle or a failure response.
C1_OracleBoundedLoopEnds ==
  [](oracleCalls <= max_popup_retries) /\ <>(pc \in PostLoop)

C1_Witness ==
  /\ pc = "done"
  /\ loop_end = "exhausted"
  /\ max_popup_retries >= 2
  /\ oracleCalls = max_popup_retries

\* C2: when the first oracle reply reports popups_found false, or omits it,
\* the loop ends right there, on attempt 1, as a clean exit: the oracle was
\* queried exactly once and click_element is never called in the request,
\* whatever elements the reply lists.
C2_CleanFirstReply ==
  /\ [][ ( /\ pc = "check_found"
           /\ attempt = 1
           /\ popup_result.type = "object"
           /\ ( "popups_found" \notin DOMAIN popup_result.fields
                \/ popup_result.fields["popups_found"] = Bool(FALSE) ) )
         => (pc' = "settle3" /\ loop_end' = "clean") ]_vars
  /\ []( (loop_end = "clean" /\ attempt = 1)
         => (oracleCalls = 1 /\ clickCalls = 0) )

C2_Witness ==
  /\ pc = "done"
  /\ loop_end = "clean"
  /\ attempt = 1
  /\ outcome = "200"

\* C3: click_element is only ever called for a candidate whose confidence is
\* a number strictly above 0.3 and whose selector is non-empty; candidates at
\* or below 0.3, without confidence, or without a selector are never clicked.
C3_OnlyQualifyingClicked ==
  /\ \A i \in 1..Len(tried) : MeetsBar(elements.items[tried[i]])
  /\ (pc \in ClickPcs /\ popup_result.type = "object") =>
       /\ MeetsBar(elements.items[idx])
       /\ selector = elements.items[idx].fields["selector"]

C3_Witness ==
  /\ pc = "click_s1"
  /\ idx = 2
  /\ tried = <<2>>
  /\ ~MeetsBar(elements.items[1])

\* C4: within one attempt the candidates are tried in the oracle's order, each
\* qualifying one exactly once, up to the first successful click; after a
\* successful click no further candidate of that reply is tried.
C4_OrderedAtMostOneSuccess ==
  /\ (pc = "scan") => (~clicked_any /\ tried = BarIndexes(idx - 1))
  /\ (pc \in ClickPcs /\ popup_result.type = "object") =>
       (~clicked_any /\ tried = BarIndexes(idx))
  /\ (pc \in {"after_scan", "settle5", "refresh"} /\ clicked_any) =>
       (tried = BarIndexes(idx) /\ tried # <<>> /\ tried[Len(tried)] = idx)
  /\ (pc = "after_scan" /\ ~clicked_any) =>
       tried = BarIndexes(Len(elements.items))

C4_Witness ==
  /\ pc = "settle5"
  /\ clicked_any
  /\ tried = <<1, 2>>

\* C5: click_element never raises: with or without a page, for every selector
\* and button text and every combination of failing driver primitives it
\* returns True or False.
C5_ClickNeverRaises ==
  /\ click_result # "raised"
  /\ pc = "click_return" => click_result \in {"true", "false"}

C5_Witness ==
  /\ pc = "click_return"
  /\ ~self_page
  /\ click_result = "false"

\* C6: no oracle outcome (a raising call, invalid JSON, JSON of an unexpected
\* shape) makes the request fail: the loop ends without raising and the
\* request goes on to content extraction.  Stated here for the replies that
\* are JSON objects.
C6_OracleFailureAbsorbed ==
  exc \notin {"OracleCall", "ElementsNotIterable", "ElementNotObject",
              "ConfidenceNotNumber"}

\* C7: when the handler returns, every resource the request acquired (page,
\* browser, Playwright driver) has been released.
C7_AllReleased == pc = "done" => open = {}

\* C8: the oracle and the extractor are never given a stale snapshot: the
\* HTML handed over was read from the live page after the last successful
\* click and after the settle that follows it (5 before an oracle query, the
\* final 3 before extraction).
C8_NoStaleRead ==
  /\ last_read.by # "none" =>
       /\ last_read.snapshot.read
       /\ ~last_read.snapshot.stale
  /\ (last_read.by = "oracle" /\ last_read.clicked_at > 0) =>
       last_read.snapshot.at >= last_read.clicked_at + PopupSettle
  /\ last_read.by = "extractor" =>
       /\ last_read.snapshot.at >= html.at + FinalSettle
       /\ last_read.clicked_at > 0 =>
            last_read.snapshot.at >= last_read.clicked_at + FinalSettle

C8_Witness ==
  /\ last_read.by = "oracle"
  /\ last_read.clicked_at > 0
  /\ pc = "check_found"

\* C9: whenever the page loaded and the driver stays available (no driver
\* call of the request raised, cleanup included), content extraction runs
\* exactly once in the request, however the loop ended.  Stated here for
\* the requests in which every oracle reply was a JSON object.
C9_ExtractionRunsOnce ==
  /\ extractCalls <= 1
  /\ ( /\ pc = "done"
       /\ exc \notin {"DriverInit", "Navigation", "Snapshot", "ReplyNotObject"}
       /\ outcome # "unhandled" )
       => extractCalls = 1

AfterValidate == {"except", "finally", "close_page", "close_browser",
                  "close_playwright", "done"}

Empty(text) == Len(text) = 0

C12_WaitSuspendsOnlyWaiter ==
  \A r \in Requests : requests[r].phase = "waiting" => thread # r

\* the first of the four title sources that is not empty after trimming,
\* "Untitled" when there is none
FirstNonEmptyTrimmed(nodes) ==
  LET filled == { k \in 1..4 : ~Empty(strip(title_strategy(nodes, k))) } IN
    IF filled = {} THEN Untitled
    ELSE title_strategy(nodes, CHOOSE k \in filled : \A j \in filled : k <= j)

\* C13: the title is the first source, in the order h1 text, title text,
\* og:title content, name="title" content, that is not empty after trimming;
\* an absent, empty or failing source falls through; "Untitled" is the last
\* resort.
C13_FirstNonEmptyWins ==
  (pc \in {"x_body", "x_images", "x_return"})
    => title = FirstNonEmptyTrimmed(html_arg.nodes)

Chars(text) == { text[i] : i \in 1..Len(text) }

\* C14: the body never contains text of a script or style element, nor of a
\* nav, header, footer, aside or iframe element, however deep those are
\* nested (in the documents here such text is made of Payload and Chrome).
C14_NoStrippedText ==
  /\ Payload \notin Chars(body)
  /\ Chrome \notin Chars(body)
  /\ Payload \notin Chars(content.body)
  /\ Chrome \notin Chars(content.body)

C14_Witness ==
  /\ pc = "x_done"
  /\ Len(content.body) > MinTextLength
  /\ \E i \in 1..Len(html_arg.nodes[2].children) :
       LET tag == html_arg.nodes[2].children[i] IN
         /\ tag.name = "p"
         /\ \E j \in 1..Len(tag.children) : tag.children[j].name = "script"

\* both attributes parse as integers and at least one is below 100
BothParseOneSmall(img) ==
  /\ IsInt(get(img, "width"))
  /\ IsInt(get(img, "height"))
  /\ (int(get(img, "width")) < 100 \/ int(get(img, "height")) < 100)

ImagesOf(nodes) == SelectSeq(Preorder(nodes), LAMBDA t : t.name = "img")

\* C15: an image is skipped on size grounds if and only if both its width and
\* its height parse as integers and at least one is below 100.  Stated for
\* the documents with a single image whose source is an absolute http URL.
C15_SkippedIffBothParse ==
  ( /\ pc = "x_return"
    /\ Len(ImagesOf(html_arg.nodes)) = 1
    /\ get(ImagesOf(html_arg.nodes)[1], "src") = HttpImage("a") )
    => (images = << >> <=> BothParseOneSmall(ImagesOf(html_arg.nodes)[1]))

\* the sources, made absolute, of the images the loop keeps, in document order
Qualifying(nodes, base) ==
  LET kept == SelectSeq(ImagesOf(nodes), LAMBDA img : appended(img, base)) IN
    [i \in 1..Len(kept) |-> absolute(src_of(kept[i]), base)]

IsAbsoluteHttp(url) ==
  \/ startswith(url, Http \o << ":", "/", "/" >>) /\ Len(url) > 7
  \/ startswith(url, Https \o << ":", "/", "/" >>) /\ Len(url) > 8

\* C17: every URL in the image list is an absolute http:// or https:// URL.
C17_OnlyAbsoluteHttp ==
  /\ \A i \in 1..Len(images) : IsAbsoluteHttp(images[i])
  /\ \A i \in 1..Len(content.images) : IsAbsoluteHttp(content.images[i])

\* no run of 3 newlines, no run of 2 spaces, no leading or trailing whitespace
Normalised(text) ==
  /\ \A i \in 1..(Len(text) - 2) :
       ~(text[i] = "\n" /\ text[i + 1] = "\n" /\ text[i + 2] = "\n")
  /\ \A i \in 1..(Len(text) - 1) : ~(text[i] = " " /\ text[i + 1] = " ")
  /\ Len(text) > 0 => (text[1] \notin Whitespace /\ text[Len(text)] \notin Whitespace)

\* C18: the whitespace clean-up is idempotent: applied to its own output it
\* returns that output unchanged, and its output has no run of 3 newlines, no
\* run of 2 spaces and no leading or trailing whitespace.
C18_CleanUpIdempotent ==
  /\ [][pc = "cleaned" => body' = body]_vars
  /\ [](pc \in {"cleaned", "cleaned_again"} => Normalised(body))

C18_Witness ==
  /\ pc = "cleaned_again"
  /\ body = << "a", "\n", "\n", "a" >>

\* C19: extract_content of the local extractor never raises: when a stage
\* fails it returns empty title, body and images, and otherwise a value with
\* exactly the fields title, body and images, the results of the three stages.
C19_ExtractorNeverRaises ==
  /\ pc # Propagates
  /\ pc = "x_done" =>
       /\ DOMAIN content = {"title", "body", "images"}
       /\ html_arg.fails # "none" => content = NoContent
       /\ html_arg.fails = "none" => content = extract_content(html_arg, base_url)

C19_Witness ==
  /\ pc = "x_done"
  /\ html_arg.fails = "body"
  /\ title = Site
  /\ content = NoContent

\* the strategies of one call in their fixed order, with `n` frames
StrategyOrder(text, n) ==
  << "direct" >>
  \o (IF text.type = "string" /\ text.str # ""
        THEN << "text_button", "text_any" >> ELSE << >>)
  \o << "forced", "programmatic" >>
  \o [i \in 1..n |-> "cross_frame"]

\* C20: click_element tries direct, text-based (button-scoped then unscoped,
\* only with a non-empty button text), forced, programmatic, cross-frame, in
\* that order; a strategy is tried only after every earlier one failed; the
\* call returns true at the first strategy that succeeds, and false, with a
\* page, only when every applicable strategy was tried and failed.
C20_StrategyCascade ==
  LET n == Len(attempted) IN
    /\ \A i \in 1..n : attempted[i].strategy = StrategyOrder(button_text, n)[i]
    /\ \A i \in 1..(n - 1) : ~attempted[i].ok
    /\ (n > 0 /\ attempted[n].ok) => (pc = "click_return" /\ click_result = "true")
    /\ (pc = "click_return" /\ click_result = "true") => (n > 0 /\ attempted[n].ok)
    /\ (pc = "click_return" /\ click_result = "false" /\ self_page) =>
         /\ n = Len(StrategyOrder(button_text, frames))
         /\ frames >= 1
         /\ \A i \in 1..n : ~attempted[i].ok

C20_Witness ==
  /\ pc = "click_return"
  /\ click_result = "true"
  /\ attempted = << Tried("direct", FALSE), Tried("text_button", FALSE),
                    Tried("text_any", FALSE), Tried("forced", TRUE) >>

(***************************************************************************)
(* Properties of the loop's end, of driver failures and of the counts.     *)
(***************************************************************************)
\* C21: a stalled attempt ends the loop.  When the oracle reported popups
\* and the scan of its candidates ended without a successful click (none met
\* the bar, or every click_element call returned false), the loop is left
\* at once towards the final settle; from then on the request makes no
\* oracle query and no click, takes no 5-unit settle and no in-loop snapshot
\* refresh, and goes from the final settle to the final snapshot and from
\* there to extraction (or, if the snapshot read raises, to the failure
\* response).
C21_StalledEndsLoop ==
  /\ [][ (pc = "after_scan" /\ ~clicked_any)
           => (pc' = "settle3" /\ loop_end' = "stalled") ]_vars
  /\ [][ loop_end = "stalled"
           => /\ oracleCalls' = oracleCalls
              /\ clickCalls' = clickCalls
              /\ html' = html
              /\ loop_end' = "stalled"
              /\ pc' \in PostLoop ]_vars
  /\ [][ (loop_end = "stalled" /\ pc = "settle3")
           => (pc' = "final_html" /\ now' = now + FinalSettle) ]_vars
  /\ [][ (loop_end = "stalled" /\ pc = "final_html")
           => pc' \in {"extract", "except"} ]_vars

C21_Witness ==
  /\ pc = "done"
  /\ loop_end = "stalled"
  /\ attempt < max_popup_retries
  /\ clickCalls >= 1
  /\ oracleCalls = attempt
  /\ extractCalls = 1

\* C22: a failure of driver initialisation is fatal and is not retried.
\* Once _init_browser has failed the request never initialises again, never
\* queries the oracle, never calls click_element and never extracts; it ends
\* with a failure outcome, and when the handler has returned everything that
\* was acquired before the failure (the Playwright driver, the browser) has
\* been released.
C22_InitFailureFatal ==
  exc = "DriverInit" =>
    /\ pc \in {"except", "finally", "close_page", "close_browser",
               "close_playwright", "done"}
    /\ oracleCalls = 0
    /\ clickCalls = 0
    /\ extractCalls = 0
    /\ ~self_page
    /\ pc = "done" => (outcome \in {"500", "unhandled"} /\ open = {})

\* C23: image extraction scans every img element of the document it was
\* given, in document order, whether or not body resolution has run: the
\* image list extract_content returns for a document is the list that image
\* extraction alone yields on that document, images inside header, nav,
\* footer and aside included.
C23_ImagesOfWholeDocument ==
  (pc = "x_done" /\ html_arg.fails = "none")
    => content.images = _extract_images(html_arg.nodes, base_url)

\* what a request owns: its attempt counter, its snapshot, its browser
\* handle and the object the handle refers to
Owned(r) ==
  << requests[r].attempts, requests[r].html, requests[r].browser,
     IF requests[r].browser = 0 THEN << >> ELSE services[requests[r].browser] >>

\* C24: concurrent requests are isolated.  Each request's browser handle is
\* an object that request constructed, so no two requests hold the same one;
\* every step changes the attempt counter, the snapshot, the handle or the
\* handle's object of at most one request (a click, a snapshot refresh, a
\* close or a failure of one request leaves what the other owns as it was);
\* and a request that has returned keeps no counter, snapshot or handle,
\* and no request holds an object a returned request constructed.
C24_RequestsIsolated ==
  /\ [](\A r \in Requests :
          requests[r].browser # 0 =>
            /\ requests[r].browser \in 1..Len(services)
            /\ services[requests[r].browser].owner = r)
  /\ [][ \A a, b \in Requests :
           (Owned(a)' # Owned(a) /\ Owned(b)' # Owned(b)) => a = b ]_vars
  /\ [](\A r \in Requests :
          requests[r].phase = "returned" =>
            /\ requests[r].attempts = 0
            /\ requests[r].html = 0 - 1
            /\ requests[r].browser = 0)

\* both requests have loaded their page; A has clicked and refreshed its
\* snapshot while B still holds the snapshot of its unclicked page
C24_Witness ==
  /\ requests["A"].browser # 0
  /\ requests["B"].browser # 0
  /\ requests["A"].browser # requests["B"].browser
  /\ requests["A"].html = 1
  /\ requests["B"].html = 0
  /\ requests["A"].attempts = 1
  /\ requests["B"].phase = "waiting"

(***************************************************************************)
(* Properties of the clicks of one click_element call.                     *)
(***************************************************************************)
\* the tries of the cross-frame strategy among the strategies tried so far
CrossFrameTries == SelectSeq(attempted, LAMBDA t : t.strategy = "cross_frame")

\* C25: the cross-frame strategy visits the frames in enumeration order and
\* tries the selector in each.  A frame whose lookup or click fails does not
\* stop the scan: the next frame is tried.  When the click in a frame
\* succeeds the call returns true there and no later frame is visited; the
\* strategy fails only after every frame has been tried.
C25_FramesInOrderUntilClicked ==
  /\ [](pc = "click_frame" => Len(CrossFrameTries) = fi - 1)
  /\ [][ (pc = "click_frame" /\ fi <= frames /\ effects' = effects)
           => (pc' = "click_frame" /\ fi' = fi + 1) ]_vars
  /\ [][ (pc = "click_frame" /\ effects' = effects + 1)
           => (pc' = "click_return" /\ click_result' = "true") ]_vars
  /\ [][ (pc = "click_frame" /\ click_result' = "false")
           => (fi > frames /\ Len(CrossFrameTries) = frames) ]_vars

\* C26: one click_element call makes at most one click take effect on the
\* page.  Once the click action of a strategy has succeeded no later
\* strategy clicks again in the call, also when the pause after the click
\* fails, and the call returns true whenever a click action succeeded.
C26_AtMostOneClickTakesEffect ==
  /\ effects <= 1
  /\ (pc = "click_return" /\ effects >= 1) => click_result = "true"

(***************************************************************************)
(* Properties of the counts of one request.                                *)
(***************************************************************************)
\* C27: the exact number of oracle queries.  In a request whose popup loop
\* ended without an exception, with max_popup_retries = N and k attempts in
\* which a click_element call returned true, the oracle was queried exactly
\* min(N, k + 1) times and the snapshot was refreshed inside the loop
\* exactly k times, and k <= N; a refresh only ever happens as the step
\* right after a 5-unit settle, which only ever follows a clicked attempt.
C27_ExactOracleCount ==
  /\ [](loop_end \in {"clean", "stalled", "exhausted"} =>
          /\ clickedAttempts <= max_popup_retries
          /\ oracleCalls = (IF max_popup_retries < clickedAttempts + 1
                              THEN max_popup_retries ELSE clickedAttempts + 1)
          /\ refreshCalls = clickedAttempts)
  /\ [][ refreshCalls' # refreshCalls
           => (pc = "refresh" /\ refreshCalls' = refreshCalls + 1) ]_vars
  /\ [][ (pc' = "refresh" /\ pc # "refresh")
           => (pc = "settle5" /\ now' = now + PopupSettle /\ clicked_any) ]_vars
  /\ [][ pc = "settle5" => pc' = "refresh" ]_vars

C27_Witness ==
  /\ pc = "done"
  /\ outcome = "200"
  /\ loop_end = "stalled"
  /\ max_popup_retries = 2
  /\ clickedAttempts = 1
  /\ oracleCalls = 2
  /\ refreshCalls = 1

(***************************************************************************)
(* Properties of the title the extractor returns.                          *)
(***************************************************************************)
\* C28: whenever the extractor completes without an internal failure the
\* title it returns is not empty, "Untitled" at worst, also for a document
\* with no heading, no title element, no meta tag and no body text that
\* qualifies; so the result with an empty title and an empty body, which is
\* what the handler answers "no content found" to, comes only from the
\* extractor's except clause.
C28_TitleNeverEmpty ==
  /\ pc \in {"x_body", "x_images", "x_return"} => ~Empty(title)
  /\ (pc = "x_done" /\ html_arg.fails = "none") => ~Empty(content.title)
  /\ (pc = "x_done" /\ Empty(content.title) /\ Empty(content.body))
       => (html_arg.fails # "none" /\ content = NoContent)

C28_Witness ==
  /\ pc = "x_done"
  /\ html_arg = Document(Page(<< >>, << >>), "none")
  /\ content.title = Untitled
  /\ Empty(content.body)
  /\ Empty(content.images)

====
